---- MODULE Spec2Model ----
(***************************************************************************)
(* The vehicle/product chaincode of                                        *)
(* Server_Side/blockchain/assets/vehicles/vehicle/owner/CRUD/read.js       *)
(* (the Go chaincode that follows the HTTP handler in that file).          *)
(*                                                                         *)
(* How the source is read.  The chaincode does not type-check as written,  *)
(* so the control flow, the ledger keys and the guards are taken           *)
(* literally, and the names are resolved as follows.                       *)
(*  - Product carries every field the code reads or writes: the declared   *)
(*    ones (lines 133-149) and the ones only the handlers use (Scrapped,   *)
(*    Make, Name, Reg, Colour, VIN).  v.Status is the lifecycle field      *)
(*    State, product.V5cID is the identifier Product_Id.  The numeric      *)
(*    types of price/width/height/weight are not modelled.                 *)
(*  - Invoke (line 441) binds nine names to the three results of           *)
(*    get_caller_data.  caller1 and caller1_affiliation are the resolved   *)
(*    user and affiliation; caller2, caller2_affiliation and destination   *)
(*    have no value in the source and are inputs.  caller_affiliation      *)
(*    (line 587) is declared nowhere in create_product: every value is     *)
(*    explored.                                                            *)
(*  - stub.GetState of a key never written yields nil bytes and no error;  *)
(*    a failing GetState yields nil bytes and an error; a failing PutState *)
(*    writes nothing.  json.Unmarshal of nil bytes is an error.            *)
(*  - a PutState that does not fail changes the ledger when it is called.  *)
(*    What the peer does with the writes of an invocation that returns an  *)
(*    error is not in the source and is not modelled.                      *)
(***************************************************************************)
EXTENDS Integers, Sequences, FiniteSets, TLC

(* ----------------------------- bounds ---------------------------------- *)
\* how many identifiers of the 9-digit range rand.Intn is sampled on
MaxIds == 2

\* how many ledger or identity-service calls of one invocation fail
MaxFaults == 1

\* how many create invocations run side by side
MaxCalls == 2

\* how long the index grows before no further create is made
MaxIndex == 3

(* ------------------------ program constants ---------------------------- *)
GOVERNMENT == 1
MANUFACTURER == 2
BUYER == 3
MANUFACTURER_BANK == 4
BUYER_BANK == 5
SHIPPER == 6
PRODUCT == 7

STATE_SALESCONTRACT == 0
STATE_ACCREDITIVE == 1
STATE_CHECK_ACCREDITIVE == 2
STATE_MANUFACTURE == 3
STATE_SHIPPING == 4
STATE_PAYMENT == 5
STATE_INUSE == 6
STATE_SCRAPPED == 7

low == 100000000
high == 999999999

(* ------------------------------ errors --------------------------------- *)
\* the nil error
OK == "nil"
E_CALLER == "Error retrieving caller information"
E_EXISTS == "Vehicle already exists"
E_DENIED_UC == "Permission Denied"
E_DENIED == "Permission denied"
E_JSON == "Invalid JSON object"
E_SAVE == "Error saving changes"
E_GET_IDS == "Unable to get v5cIDs"
E_CORRUPT_IDS == "Corrupt V5C_Holder record"
E_PUT_IDS == "Unable to put the state"
E_RETRIEVE == "Error retrieving v5c"
E_NO_FUNCTION == "Function of that name doesn't exist."
E_UNDEFINED == "Car not fully defined"
E_ECERT == "Error calling ecert API"
E_PANIC == "panic: index out of range"

\* the error kinds of the taxonomy, as sets of the messages the code returns
PermissionDenied == {E_DENIED_UC, E_DENIED}
AlreadyExists == {E_EXISTS}
UnknownOperation == {E_NO_FUNCTION, "Received unknown function invocation"}

(* ---------------------------- principals ------------------------------- *)
\* names of participants_info.js; the affiliation is the third field of the
\* common name of the principal's certificate
Principals == {"DVLA", "Toyota", "Joe Payne", "Andrew Hurt", "LeaseCan",
               "ScrapIt! UK"}

AffiliationOf(name) ==
    CASE name = "DVLA" -> GOVERNMENT
      [] name = "Toyota" -> MANUFACTURER
      [] name \in {"Joe Payne", "Andrew Hurt"} -> BUYER
      [] name = "LeaseCan" -> MANUFACTURER_BANK
      [] name = "ScrapIt! UK" -> BUYER_BANK
      [] OTHER -> 0

\* a principal whose certificate carries a third field that is no number:
\* strconv.Atoi yields 0 and its error is dropped (line 288)
Garbled == {"Mallory"}

\* the principals an invocation can come from
Callers == Principals \cup Garbled

Affiliations == {GOVERNMENT, MANUFACTURER, BUYER, MANUFACTURER_BANK, BUYER_BANK}

(* ------------------------------ ledger --------------------------------- *)
VARIABLES
    assets,     \* the asset records: product id -> Product, for the keys written
    holders,    \* the Product_Id_Holder records under "pids", "v5cIDs", "productId"
    ret,        \* the invocation that ran last and what it returned
    scrapDone,  \* history: the assets scrap_vehicle has returned nil for
    calls       \* the create invocations in progress, each at its ledger call

vars == <<assets, holders, ret, scrapDone, calls>>

HolderKeys == {"pids", "v5cIDs", "productId"}

\* a key never written
Absent == [present |-> FALSE, ids |-> <<>>]

Holder(ids) == [present |-> TRUE, ids |-> ids]

\* what one invocation sees of, and leaves in, the ledger
Ledger(a, h) == [assets |-> a, holders |-> h]

\* the ledger operations an invocation can be made to fail at
FaultPoints == {"identity", "get_used", "get_record", "put_record", "get_index",
                "put_index", "get_asset"}

\* rand.Intn(n): a sample of 0 .. n-1 that holds both ends
Intn(n) == (0 .. (MaxIds - 2)) \cup {n - 1}

Range(s) == {s[i] : i \in DOMAIN s}

(* ------------------------------ Product -------------------------------- *)
\* text that breaks the JSON object it is spliced into (it holds a quote)
BadText == "Der\"by"

Destinations == {"Derby", BadText}

UNDEFINED == "UNDEFINED"

\* the values an update is given
NewValues == {UNDEFINED, "set"}

\* json.Marshal leaving the member of Scrapped at its zero value
Marshal_OmitsScrapped(product) ==
    [Product_Id |-> product.Product_Id, Manufacturer |-> product.Manufacturer,
     Owner |-> product.Owner, Destination |-> product.Destination,
     State |-> product.Status, Scrapped |-> FALSE,
     Make |-> product.Make, Name |-> product.Name, Reg |-> product.Reg,
     Colour |-> product.Colour, VIN |-> product.VIN]

\* json.Marshal(product): one member per struct field
Marshal(product) ==
    [Product_Id |-> product.Product_Id, Manufacturer |-> product.Manufacturer,
     Owner |-> product.Owner, Destination |-> product.Destination,
     State |-> product.Status, Scrapped |-> product.Scrapped,
     Make |-> product.Make, Name |-> product.Name, Reg |-> product.Reg,
     Colour |-> product.Colour, VIN |-> product.VIN]

\* json.Unmarshal(bytes, &product)
Unmarshal(bytes) ==
    [Product_Id |-> bytes.Product_Id, Manufacturer |-> bytes.Manufacturer,
     Owner |-> bytes.Owner, Destination |-> bytes.Destination,
     Status |-> bytes.State, Scrapped |-> bytes.Scrapped,
     Make |-> bytes.Make, Name |-> bytes.Name, Reg |-> bytes.Reg,
     Colour |-> bytes.Colour, VIN |-> bytes.VIN]

\* the outcome of a call: the error returned and the ledger left behind
Outcome(err, l) == [err |-> err, assets |-> l.assets, holders |-> l.holders]

\* retrieve_product: [err, product]; product is meaningful when err = OK
retrieve_product(l, productId, faults) ==
    IF "get_asset" \in faults \/ productId \notin DOMAIN l.assets
    THEN [err |-> "RETRIEVE_V5C: Error retrieving vehicle", product |-> <<>>]
    ELSE [err |-> OK, product |-> Unmarshal(l.assets[productId])]

\* stub.PutState(product.Product_Id, bytes) of save_changes
PutProduct(l, product) ==
    Ledger([k \in DOMAIN l.assets \cup {product.Product_Id} |->
               IF k = product.Product_Id THEN Marshal(product) ELSE l.assets[k]],
           l.holders)

\* save_changes: the ledger after it and whether it failed
save_changes(l, product, faults) ==
    IF "put_record" \in faults
    THEN [err |-> "Error storing vehicle record", ledger |-> l]
    ELSE [err |-> OK, ledger |-> PutProduct(l, product)]

(* --------------------------- id allocation ----------------------------- *)
\* getAllUsedProductIds: the values of the slice it returns (nil: none).
\* The slice is made with 500 zeros and filled from the front.
getAllUsedProductIds(l, faults) ==
    LET h == l.holders["productId"]
    IN  IF "get_used" \in faults \/ ~h.present THEN {}
        ELSE IF \E i \in DOMAIN h.ids :
                    retrieve_product(l, h.ids[i], faults).err # OK THEN {}
        ELSE {retrieve_product(l, h.ids[i], faults).product.Product_Id :
                    i \in DOMAIN h.ids} \cup {0}

isRandomIdUnused(l, randomId, faults) ==
    \A id \in getAllUsedProductIds(l, faults) : id # randomId

\* the values rand.Intn(high - low) + low is sampled on
Draws == {n + low : n \in Intn(high - low)}

\* createRandomId: the identifiers the loop can leave with
createRandomId(l, faults) ==
    {randomId \in Draws : isRandomIdUnused(l, randomId, faults)}

(* ------------------------------ create --------------------------------- *)
\* the product the JSON text of lines 556-575 unmarshals to
NewProduct(productId, caller1, product_destination) ==
    [Product_Id |-> productId, Manufacturer |-> caller1, Owner |-> caller1,
     Destination |-> product_destination, Status |-> 0, Scrapped |-> FALSE,
     Make |-> "", Name |-> "", Reg |-> "", Colour |-> "", VIN |-> 0]

\* the index write putting the new identifier in place of the index
AppendToIndex_Replaces(l, productId, faults) ==
    LET v5cIDs == l.holders["v5cIDs"]
    IN  IF "get_index" \in faults THEN Outcome(E_GET_IDS, l)
        ELSE IF ~v5cIDs.present THEN Outcome(E_CORRUPT_IDS, l)
        ELSE IF "put_index" \in faults THEN Outcome(E_PUT_IDS, l)
        ELSE Outcome(OK, Ledger(l.assets,
                 [l.holders EXCEPT !["v5cIDs"] = Holder(<<productId>>)]))

\* lines 599-625: read the holder under "v5cIDs", append, write it back
AppendToIndex(l, productId, faults) ==
    LET v5cIDs == l.holders["v5cIDs"]
    IN  IF "get_index" \in faults THEN Outcome(E_GET_IDS, l)
        ELSE IF ~v5cIDs.present THEN Outcome(E_CORRUPT_IDS, l)
        ELSE IF "put_index" \in faults THEN Outcome(E_PUT_IDS, l)
        ELSE Outcome(OK, Ledger(l.assets,
                 [l.holders EXCEPT !["v5cIDs"] =
                      Holder(Append(v5cIDs.ids, productId))]))

create_product(l, caller1, caller2, caller1_affiliation, caller2_affiliation, caller_affiliation, product_destination, productId, faults) ==
    IF ~(caller1_affiliation = 2 /\ caller2_affiliation = 3)
    THEN Outcome(OK, l)
    ELSE IF product_destination = BadText THEN Outcome(E_JSON, l)
    ELSE LET product == NewProduct(productId, caller1, product_destination)
             record == IF "get_record" \in faults THEN FALSE
                       ELSE product.Product_Id \in DOMAIN l.assets
             saved == save_changes(l, product, faults)
         IN  IF record THEN Outcome(E_EXISTS, l)
             ELSE IF caller_affiliation # GOVERNMENT
                  THEN Outcome(E_DENIED_UC, l)
             ELSE IF saved.err # OK THEN Outcome(E_SAVE, l)
             ELSE AppendToIndex(saved.ledger, productId, faults)

(* ------------------------------ handlers ------------------------------- *)
\* the tail every handler shares: save_changes, then "Error saving changes"
SaveOr(l, v, faults, message) ==
    LET saved == save_changes(l, v, faults)
    IN  IF saved.err # OK THEN Outcome(message, l) ELSE Outcome(OK, saved.ledger)

Save(l, v, faults) == SaveOr(l, v, faults, E_SAVE)

\* manufacturer_to_buyer without the test of the recipient's affiliation
manufacturer_to_buyer_AnyRecipient(l, v, caller, caller_affiliation, recipient_name, recipient_affiliation, faults) ==
    IF v.Status = STATE_SALESCONTRACT /\ v.Owner = caller
       /\ caller_affiliation = GOVERNMENT /\ v.Scrapped = FALSE
    THEN Save(l, [v EXCEPT !.Owner = recipient_name, !.Status = STATE_ACCREDITIVE],
              faults)
    ELSE Outcome(E_DENIED_UC, l)

manufacturer_to_buyer(l, v, caller, caller_affiliation, recipient_name, recipient_affiliation, faults) ==
    IF v.Status = STATE_SALESCONTRACT /\ v.Owner = caller
       /\ caller_affiliation = GOVERNMENT /\ recipient_affiliation = MANUFACTURER
       /\ v.Scrapped = FALSE
    THEN Save(l, [v EXCEPT !.Owner = recipient_name, !.Status = STATE_ACCREDITIVE],
              faults)
    ELSE Outcome(E_DENIED_UC, l)

\* manufacturer_to_bank without the test of the descriptive fields
manufacturer_to_bank_NoFieldTest(l, product, caller, caller_affiliation, recipient_name, recipient_affiliation, faults) ==
    IF product.Status = STATE_ACCREDITIVE /\ product.Owner = caller
       /\ caller_affiliation = MANUFACTURER /\ recipient_affiliation = BUYER
       /\ product.Scrapped = FALSE
    THEN Save(l, [product EXCEPT !.Owner = recipient_name,
                                 !.Status = STATE_CHECK_ACCREDITIVE], faults)
    ELSE Outcome(E_DENIED, l)

manufacturer_to_bank(l, product, caller, caller_affiliation, recipient_name, recipient_affiliation, faults) ==
    IF product.Make = UNDEFINED \/ product.Name = UNDEFINED
       \/ product.Reg = UNDEFINED \/ product.Colour = UNDEFINED \/ product.VIN = 0
    THEN Outcome(E_UNDEFINED, l)
    ELSE IF product.Status = STATE_ACCREDITIVE /\ product.Owner = caller
            /\ caller_affiliation = MANUFACTURER /\ recipient_affiliation = BUYER
            /\ product.Scrapped = FALSE
    THEN Save(l, [product EXCEPT !.Owner = recipient_name,
                                 !.Status = STATE_CHECK_ACCREDITIVE], faults)
    ELSE Outcome(E_DENIED, l)

buyer_to_buyer(l, v, caller, caller_affiliation, recipient_name, recipient_affiliation, faults) ==
    IF v.Status = STATE_CHECK_ACCREDITIVE /\ v.Owner = caller
       /\ caller_affiliation = BUYER /\ recipient_affiliation = BUYER
       /\ v.Scrapped = FALSE
    THEN Save(l, [v EXCEPT !.Owner = recipient_name], faults)
    ELSE Outcome(E_DENIED, l)

private_to_lease_company(l, v, caller, caller_affiliation, recipient_name, recipient_affiliation, faults) ==
    IF v.Status = STATE_CHECK_ACCREDITIVE /\ v.Owner = caller
       /\ caller_affiliation = BUYER /\ recipient_affiliation = MANUFACTURER_BANK
       /\ v.Scrapped = FALSE
    THEN Save(l, [v EXCEPT !.Owner = recipient_name], faults)
    ELSE Outcome(E_DENIED, l)

\* lease_company_to_private also moving the lifecycle state on
lease_company_to_private_Advances(l, v, caller, caller_affiliation, recipient_name, recipient_affiliation, faults) ==
    IF v.Status = STATE_CHECK_ACCREDITIVE /\ v.Owner = caller
       /\ caller_affiliation = MANUFACTURER_BANK /\ recipient_affiliation = BUYER
       /\ v.Scrapped = FALSE
    THEN Save(l, [v EXCEPT !.Owner = recipient_name, !.Status = STATE_MANUFACTURE],
              faults)
    ELSE Outcome(E_DENIED, l)

lease_company_to_private(l, v, caller, caller_affiliation, recipient_name, recipient_affiliation, faults) ==
    IF v.Status = STATE_CHECK_ACCREDITIVE /\ v.Owner = caller
       /\ caller_affiliation = MANUFACTURER_BANK /\ recipient_affiliation = BUYER
       /\ v.Scrapped = FALSE
    THEN Save(l, [v EXCEPT !.Owner = recipient_name], faults)
    ELSE Outcome(E_DENIED, l)

\* private_to_scrap_merchant without the test of the caller's affiliation
private_to_scrap_merchant_AnyCaller(l, v, caller, caller_affiliation, recipient_name, recipient_affiliation, faults) ==
    IF v.Status = STATE_CHECK_ACCREDITIVE /\ v.Owner = caller
       /\ recipient_affiliation = BUYER_BANK /\ v.Scrapped = FALSE
    THEN Save(l, [v EXCEPT !.Owner = recipient_name, !.Status = STATE_SHIPPING],
              faults)
    ELSE Outcome(E_DENIED, l)

\* private_to_scrap_merchant writing the wrong state constant
private_to_scrap_merchant_WrongState(l, v, caller, caller_affiliation, recipient_name, recipient_affiliation, faults) ==
    IF v.Status = STATE_CHECK_ACCREDITIVE /\ v.Owner = caller
       /\ caller_affiliation = BUYER /\ recipient_affiliation = BUYER_BANK
       /\ v.Scrapped = FALSE
    THEN Save(l, [v EXCEPT !.Owner = recipient_name, !.Status = STATE_ACCREDITIVE],
              faults)
    ELSE Outcome(E_DENIED, l)

private_to_scrap_merchant(l, v, caller, caller_affiliation, recipient_name, recipient_affiliation, faults) ==
    IF v.Status = STATE_CHECK_ACCREDITIVE /\ v.Owner = caller
       /\ caller_affiliation = BUYER /\ recipient_affiliation = BUYER_BANK
       /\ v.Scrapped = FALSE
    THEN Save(l, [v EXCEPT !.Owner = recipient_name, !.Status = STATE_SHIPPING],
              faults)
    ELSE Outcome(E_DENIED, l)

\* update_registration without the test of the caller's affiliation
update_registration_AnyAffiliation(l, v, caller, caller_affiliation, new_value, faults) ==
    IF v.Owner = caller /\ v.Scrapped = FALSE
    THEN Save(l, [v EXCEPT !.Reg = new_value], faults)
    ELSE Outcome(E_DENIED, l)

update_registration(l, v, caller, caller_affiliation, new_value, faults) ==
    IF v.Owner = caller /\ caller_affiliation # BUYER_BANK /\ v.Scrapped = FALSE
    THEN Save(l, [v EXCEPT !.Reg = new_value], faults)
    ELSE Outcome(E_DENIED, l)

\* update_colour with the guard of the comment on lines 848-850, which also
\* lets the regulator in
update_colour_Authority(l, v, caller, caller_affiliation, new_value, faults) ==
    IF ((v.Owner = caller /\ caller_affiliation = MANUFACTURER)
        \/ caller_affiliation = GOVERNMENT) /\ v.Scrapped = FALSE
    THEN Save(l, [v EXCEPT !.Colour = new_value], faults)
    ELSE Outcome(E_DENIED, l)

update_colour(l, v, caller, caller_affiliation, new_value, faults) ==
    IF v.Owner = caller /\ caller_affiliation = MANUFACTURER /\ v.Scrapped = FALSE
    THEN Save(l, [v EXCEPT !.Colour = new_value], faults)
    ELSE Outcome(E_DENIED, l)

\* update_make without the test of the lifecycle state
update_make_AnyState(l, v, caller, caller_affiliation, new_value, faults) ==
    IF v.Owner = caller /\ caller_affiliation = MANUFACTURER /\ v.Scrapped = FALSE
    THEN Save(l, [v EXCEPT !.Make = new_value], faults)
    ELSE Outcome(E_DENIED, l)

update_make(l, v, caller, caller_affiliation, new_value, faults) ==
    IF v.Status = STATE_ACCREDITIVE /\ v.Owner = caller
       /\ caller_affiliation = MANUFACTURER /\ v.Scrapped = FALSE
    THEN Save(l, [v EXCEPT !.Make = new_value], faults)
    ELSE Outcome(E_DENIED, l)

update_model(l, v, caller, caller_affiliation, new_value, faults) ==
    IF v.Status = STATE_ACCREDITIVE /\ v.Owner = caller
       /\ caller_affiliation = MANUFACTURER /\ v.Scrapped = FALSE
    THEN Save(l, [v EXCEPT !.Name = new_value], faults)
    ELSE Outcome(E_DENIED, l)

\* scrap_vehicle without the test of the lifecycle state
scrap_vehicle_AnyState(l, v, caller, caller_affiliation, faults) ==
    IF v.Owner = caller /\ caller_affiliation = BUYER_BANK /\ v.Scrapped = FALSE
    THEN SaveOr(l, [v EXCEPT !.Scrapped = TRUE], faults,
                "SCRAP_VEHICLError saving changes")
    ELSE Outcome(E_DENIED, l)

\* scrap_vehicle without the test of the scrapped flag
scrap_vehicle_Again(l, v, caller, caller_affiliation, faults) ==
    IF v.Status = STATE_SHIPPING /\ v.Owner = caller
       /\ caller_affiliation = BUYER_BANK
    THEN SaveOr(l, [v EXCEPT !.Scrapped = TRUE], faults,
                "SCRAP_VEHICLError saving changes")
    ELSE Outcome(E_DENIED, l)

scrap_vehicle(l, v, caller, caller_affiliation, faults) ==
    IF v.Status = STATE_SHIPPING /\ v.Owner = caller
       /\ caller_affiliation = BUYER_BANK /\ v.Scrapped = FALSE
    THEN SaveOr(l, [v EXCEPT !.Scrapped = TRUE], faults,
                "SCRAP_VEHICLError saving changes")
    ELSE Outcome(E_DENIED, l)

(* ------------------------------ identity ------------------------------- *)
\* names the registrar has no certificate for
Strangers == {"nobody"}

\* get_ecert followed by check_affiliation, for the name given
ResolveNamed(name, faults) ==
    IF name \notin Callers
    THEN [err |-> E_ECERT, affiliation |-> -1]
    ELSE [err |-> OK, affiliation |-> AffiliationOf(name)]

\* get_caller_data: the user of the caller's certificate and its affiliation
get_caller_data(caller, faults) ==
    IF "identity" \in faults
    THEN [err |-> "Couldn't retrieve caller certificate", user |-> "",
          affiliation |-> -1]
    ELSE LET named == ResolveNamed(caller, faults)
         IN  [err |-> named.err, user |-> IF named.err = OK THEN caller ELSE "",
              affiliation |-> named.affiliation]

(* ------------------------------ routers -------------------------------- *)
InvokeFunctions ==
    {"create_product", "manufacturer_to_buyer", "manufacturer_to_bank",
     "buyer_to_buyer", "private_to_lease_company", "lease_company_to_private",
     "private_to_scrap_merchant", "update_registration", "update_colour",
     "update_make", "update_model", "scrap_vehicle"}

\* strings.Contains(function, "update")
ContainsUpdate(function) ==
    function \in {"update_registration", "update_colour", "update_make",
                  "update_model"}

\* Invoke for a function other than create_product (lines 450-510).
\* args are held in call order: args[1] is the Go args[0].
InvokeOther(l, function, args, caller, faults) ==
    LET cd == get_caller_data(caller, faults)
        argPos == IF function = "scrap_vehicle" THEN 0 ELSE 1
    IN  IF cd.err # OK THEN Outcome(E_CALLER, l)
        ELSE IF Len(args) < argPos + 1 THEN Outcome(E_PANIC, l)
        ELSE IF retrieve_product(l, args[argPos + 1], faults).err # OK
             THEN Outcome(E_RETRIEVE, l)
        ELSE IF ~ContainsUpdate(function) /\ function # "scrap_vehicle"
             THEN LET rec == ResolveNamed(args[1], faults)
                  IN  IF rec.err # OK THEN Outcome(rec.err, l)
                      ELSE Outcome(E_NO_FUNCTION, l)
        ELSE Outcome(E_NO_FUNCTION, l)

\* Invoke for create_product (lines 441-448)
InvokeCreate(l, args, caller, caller2, caller2_affiliation, caller_affiliation, destination, productId, faults) ==
    LET cd == get_caller_data(caller, faults)
    IN  IF cd.err # OK THEN Outcome(E_CALLER, l)
        ELSE IF Len(args) < 1 THEN Outcome(E_PANIC, l)
        ELSE create_product(l, cd.user, caller2, cd.affiliation,
                            caller2_affiliation, caller_affiliation, destination,
                            productId, faults)

\* get_vehicle_details without the regulator's right to read
get_vehicle_details_OwnerOnly(v, caller, caller_affiliation) ==
    IF v.Owner = caller
    THEN [err |-> OK, out |-> <<Marshal(v)>>]
    ELSE [err |-> E_DENIED_UC, out |-> <<>>]

\* get_vehicle_details: [err, out]
get_vehicle_details(v, caller, caller_affiliation) ==
    IF v.Owner = caller \/ caller_affiliation = GOVERNMENT
    THEN [err |-> OK, out |-> <<Marshal(v)>>]
    ELSE [err |-> E_DENIED_UC, out |-> <<>>]

RECURSIVE VehiclesFrom(_, _, _, _, _)
\* the loop of get_vehicles (lines 996-1009) from position i of the ids
VehiclesFrom(l, ids, i, caller, caller_affiliation) ==
    IF i > Len(ids) THEN <<>>
    ELSE LET v == retrieve_product(l, ids[i], {}).product
             temp == get_vehicle_details(v, caller, caller_affiliation)
         IN  temp.out \o VehiclesFrom(l, ids, i + 1, caller, caller_affiliation)

\* get_vehicles returning the error of get_vehicle_details instead of
\* skipping the asset
get_vehicles_Propagates(l, caller, caller_affiliation, faults) ==
    LET v5cIDs == l.holders["v5cIDs"]
    IN  IF "get_index" \in faults THEN [err |-> E_GET_IDS, out |-> <<>>]
        ELSE IF ~v5cIDs.present THEN [err |-> "Corrupt V5C_Holder", out |-> <<>>]
        ELSE IF \E i \in DOMAIN v5cIDs.ids :
                    retrieve_product(l, v5cIDs.ids[i], faults).err # OK
             THEN [err |-> "Failed to retrieve V5C", out |-> <<>>]
        ELSE IF \E i \in DOMAIN v5cIDs.ids :
                    get_vehicle_details(
                        retrieve_product(l, v5cIDs.ids[i], faults).product,
                        caller, caller_affiliation).err # OK
             THEN [err |-> E_DENIED_UC, out |-> <<>>]
        ELSE [err |-> OK,
              out |-> VehiclesFrom(l, v5cIDs.ids, 1, caller, caller_affiliation)]

get_vehicles(l, caller, caller_affiliation, faults) ==
    LET v5cIDs == l.holders["v5cIDs"]
    IN  IF "get_index" \in faults THEN [err |-> E_GET_IDS, out |-> <<>>]
        ELSE IF ~v5cIDs.present THEN [err |-> "Corrupt V5C_Holder", out |-> <<>>]
        ELSE IF \E i \in DOMAIN v5cIDs.ids :
                    retrieve_product(l, v5cIDs.ids[i], faults).err # OK
             THEN [err |-> "Failed to retrieve V5C", out |-> <<>>]
        ELSE [err |-> OK,
              out |-> VehiclesFrom(l, v5cIDs.ids, 1, caller, caller_affiliation)]

\* Query (lines 516-542): [err, out]
Query(l, function, args, caller, faults) ==
    LET cd == get_caller_data(caller, faults)
    IN  IF cd.err # OK
        THEN [err |-> "QUERY: Error retrieving caller details", out |-> <<>>]
        ELSE IF function = "get_vehicle_details"
        THEN IF Len(args) # 1
             THEN [err |-> "QUERY: Incorrect number of arguments passed",
                   out |-> <<>>]
             ELSE LET r == retrieve_product(l, args[1], faults)
                  IN  IF r.err # OK
                      THEN [err |-> "QUERY: Error retrieving v5c", out |-> <<>>]
                      ELSE get_vehicle_details(r.product, cd.user, cd.affiliation)
        ELSE IF function = "get_vehicles"
        THEN get_vehicles(l, cd.user, cd.affiliation, faults)
        ELSE [err |-> "Received unknown function invocation", out |-> <<>>]

(* ------------------------------- inputs -------------------------------- *)
\* the sets of calls that fail in one invocation, among the calls it makes
FaultSets(points) == {f \in SUBSET points : Cardinality(f) <= MaxFaults}

\* an identifier rand.Intn never yields: no asset is stored under it
NoSuchId == high

\* the identifiers a call can name
ArgIds == Draws \cup {NoSuchId}

\* the names a transfer is given as its recipient
Recipients == Principals \cup Strangers

\* the affiliation of the second party of a create
SecondAffiliations == {MANUFACTURER, BUYER}

(* ---------------------------- the program ------------------------------ *)
NoAssets == [k \in {} |-> 0]

\* the create invocations that can be in progress
Procs == 1 .. MaxCalls

\* a create invocation that has not been made.  existed and overwrote are
\* history: whether a record was stored under the identifier when it was
\* drawn, and when save_changes wrote it.
NotCalled == [pc |-> "idle", caller1 |-> "", productId |-> 0, ids |-> <<>>,
              err |-> OK, failed |-> 0, existed |-> FALSE, overwrote |-> FALSE]

NoCalls == [p \in Procs |-> NotCalled]

\* no invocation is waiting for its response
Idle == [op |-> "none", caller |-> "", arg |-> "", id |-> 0, err |-> OK,
         out |-> <<>>]

\* Init (lines 172-195).  The result of PutState("pids") is overwritten by
\* the result of PutState("Peer_Address") before it is tested, so Init also
\* returns nil when the holder was not written.
Init ==
    /\ assets = NoAssets
    /\ \E written \in BOOLEAN :
          holders = [k \in HolderKeys |->
                        IF k = "pids" /\ written THEN Holder(<<>>) ELSE Absent]
    /\ ret = Idle
    /\ scrapDone = {}
    /\ calls = NoCalls

\* the response: the function called, its caller, its first argument (the
\* recipient or the new value), the asset named, the error and the bytes
Returned(op, caller, arg, id, err, out) ==
    ret' = [op |-> op, caller |-> caller, arg |-> arg, id |-> id, err |-> err,
            out |-> out]

Commit(op, caller, arg, id, outcome) ==
    /\ assets' = outcome.assets
    /\ holders' = outcome.holders
    /\ Returned(op, caller, arg, id, outcome.err, <<>>)
    /\ scrapDone' = IF op = "scrap_vehicle" /\ outcome.err = OK
                    THEN scrapDone \cup {id} ELSE scrapDone
    /\ UNCHANGED calls

\* the caller takes the response of the invocation
Respond ==
    /\ ret # Idle
    /\ ret' = Idle
    /\ UNCHANGED <<assets, holders, scrapDone, calls>>

DoCreate ==
    /\ ret = Idle
    /\ \E caller \in Callers, args \in {<<>>, <<"Derby">>},
       caller2_affiliation \in SecondAffiliations,
       caller_affiliation \in Affiliations, destination \in Destinations,
       faults \in FaultSets({"identity", "get_used", "get_record", "put_record",
                             "get_index", "put_index"}) :
       LET l == Ledger(assets, holders)
       IN  \E productId \in createRandomId(l, faults) :
              Commit("create_product", caller, destination, productId,
                     InvokeCreate(l, args, caller, "Joe Payne",
                                  caller2_affiliation, caller_affiliation,
                                  destination, productId, faults))

TransferFunctions ==
    {"manufacturer_to_buyer", "manufacturer_to_bank", "buyer_to_buyer",
     "private_to_lease_company", "lease_company_to_private",
     "private_to_scrap_merchant"}

UpdateFunctions ==
    {"update_registration", "update_colour", "update_make", "update_model"}

\* the argument lists of a call that names asset id (0: the id is left out)
ArgLists(function, first, id) ==
    IF function = "scrap_vehicle"
    THEN IF id = 0 THEN <<>> ELSE <<id>>
    ELSE IF id = 0 THEN <<first>> ELSE <<first, id>>

\* Invoke of any function but create_product
DoInvoke ==
    /\ ret = Idle
    /\ \E function \in (InvokeFunctions \ {"create_product"}) \cup {"no_such_function"},
       caller \in Callers, first \in {"Toyota", "nobody"},
       id \in ArgIds \cup {0}, faults \in FaultSets({"identity", "get_asset"}) :
       Commit(function, caller, first, id,
              InvokeOther(Ledger(assets, holders), function,
                          ArgLists(function, first, id), caller, faults))

DoQuery ==
    /\ ret = Idle
    /\ \E function \in {"get_vehicle_details", "get_vehicles", "no_such_function"},
       caller \in Callers, id \in ArgIds, nargs \in 0 .. 2,
       faults \in FaultSets({"identity", "get_index", "get_asset"}) :
       LET args == [i \in 1 .. nargs |-> id]
           q == Query(Ledger(assets, holders), function, args, caller, faults)
       IN  /\ UNCHANGED <<assets, holders, scrapDone, calls>>
           /\ Returned(function, caller, "", IF nargs = 0 THEN 0 ELSE id, q.err,
                       q.out)

Next == DoCreate \/ DoInvoke \/ DoQuery \/ Respond

Spec == Init /\ [][Next]_vars

(* ------------------- the handlers, called directly --------------------- *)
\* The asset a handler is given: any value of Product.  Invoke routes to no
\* handler (lines 482-505 are comments), so the handlers are exercised as
\* functions of the asset loaded from the ledger, the caller and the recipient.
SeedId == low

SeedProducts ==
    [Product_Id : {SeedId}, Manufacturer : {"Toyota"}, Owner : Principals,
     Destination : {"Derby"}, Status : STATE_SALESCONTRACT .. STATE_SCRAPPED,
     Scrapped : BOOLEAN, Make : NewValues, Name : NewValues, Reg : NewValues,
     Colour : NewValues, VIN : {0, 1}]

HInit ==
    /\ \E seed \in SeedProducts : assets = [k \in {SeedId} |-> Marshal(seed)]
    /\ holders = [k \in HolderKeys |-> IF k = "pids" THEN Holder(<<>>) ELSE Absent]
    /\ ret = Idle
    /\ scrapDone = {}
    /\ calls = NoCalls

\* the asset Invoke loads for the handler (line 459)
Loaded(id) == retrieve_product(Ledger(assets, holders), id, {}).product

Call_manufacturer_to_buyer ==
    /\ ret = Idle
    /\ \E id \in DOMAIN assets, caller \in Principals, recipient \in Principals,
          faults \in FaultSets({"put_record"}) :
          Commit("manufacturer_to_buyer", caller, recipient, id,
                 manufacturer_to_buyer(Ledger(assets, holders), Loaded(id), caller,
                     AffiliationOf(caller), recipient, AffiliationOf(recipient),
                     faults))

Call_manufacturer_to_bank ==
    /\ ret = Idle
    /\ \E id \in DOMAIN assets, caller \in Principals, recipient \in Principals,
          faults \in FaultSets({"put_record"}) :
          Commit("manufacturer_to_bank", caller, recipient, id,
                 manufacturer_to_bank(Ledger(assets, holders), Loaded(id), caller,
                     AffiliationOf(caller), recipient, AffiliationOf(recipient),
                     faults))

Call_buyer_to_buyer ==
    /\ ret = Idle
    /\ \E id \in DOMAIN assets, caller \in Principals, recipient \in Principals,
          faults \in FaultSets({"put_record"}) :
          Commit("buyer_to_buyer", caller, recipient, id,
                 buyer_to_buyer(Ledger(assets, holders), Loaded(id), caller,
                     AffiliationOf(caller), recipient, AffiliationOf(recipient),
                     faults))

Call_private_to_lease_company ==
    /\ ret = Idle
    /\ \E id \in DOMAIN assets, caller \in Principals, recipient \in Principals,
          faults \in FaultSets({"put_record"}) :
          Commit("private_to_lease_company", caller, recipient, id,
                 private_to_lease_company(Ledger(assets, holders), Loaded(id),
                     caller, AffiliationOf(caller), recipient,
                     AffiliationOf(recipient), faults))

Call_lease_company_to_private ==
    /\ ret = Idle
    /\ \E id \in DOMAIN assets, caller \in Principals, recipient \in Principals,
          faults \in FaultSets({"put_record"}) :
          Commit("lease_company_to_private", caller, recipient, id,
                 lease_company_to_private(Ledger(assets, holders), Loaded(id),
                     caller, AffiliationOf(caller), recipient,
                     AffiliationOf(recipient), faults))

Call_private_to_scrap_merchant ==
    /\ ret = Idle
    /\ \E id \in DOMAIN assets, caller \in Principals, recipient \in Principals,
          faults \in FaultSets({"put_record"}) :
          Commit("private_to_scrap_merchant", caller, recipient, id,
                 private_to_scrap_merchant(Ledger(assets, holders), Loaded(id),
                     caller, AffiliationOf(caller), recipient,
                     AffiliationOf(recipient), faults))

Call_update_registration ==
    /\ ret = Idle
    /\ \E id \in DOMAIN assets, caller \in Principals, new_value \in NewValues,
          faults \in FaultSets({"put_record"}) :
          Commit("update_registration", caller, new_value, id,
                 update_registration(Ledger(assets, holders), Loaded(id), caller,
                     AffiliationOf(caller), new_value, faults))

Call_update_colour ==
    /\ ret = Idle
    /\ \E id \in DOMAIN assets, caller \in Principals, new_value \in NewValues,
          faults \in FaultSets({"put_record"}) :
          Commit("update_colour", caller, new_value, id,
                 update_colour(Ledger(assets, holders), Loaded(id), caller,
                     AffiliationOf(caller), new_value, faults))

Call_update_make ==
    /\ ret = Idle
    /\ \E id \in DOMAIN assets, caller \in Principals, new_value \in NewValues,
          faults \in FaultSets({"put_record"}) :
          Commit("update_make", caller, new_value, id,
                 update_make(Ledger(assets, holders), Loaded(id), caller,
                     AffiliationOf(caller), new_value, faults))

Call_update_model ==
    /\ ret = Idle
    /\ \E id \in DOMAIN assets, caller \in Principals, new_value \in NewValues,
          faults \in FaultSets({"put_record"}) :
          Commit("update_model", caller, new_value, id,
                 update_model(Ledger(assets, holders), Loaded(id), caller,
                     AffiliationOf(caller), new_value, faults))

Call_scrap_vehicle ==
    /\ ret = Idle
    /\ \E id \in DOMAIN assets, caller \in Principals,
          faults \in FaultSets({"put_record"}) :
          Commit("scrap_vehicle", caller, "", id,
                 scrap_vehicle(Ledger(assets, holders), Loaded(id), caller,
                     AffiliationOf(caller), faults))

HNext ==
    \/ Call_manufacturer_to_buyer \/ Call_manufacturer_to_bank
    \/ Call_buyer_to_buyer \/ Call_private_to_lease_company
    \/ Call_lease_company_to_private \/ Call_private_to_scrap_merchant
    \/ Call_update_registration \/ Call_update_colour \/ Call_update_make
    \/ Call_update_model \/ Call_scrap_vehicle \/ DoQuery \/ Respond

HandlerSpec == HInit /\ [][HNext]_vars

(* ------------- create_product, one ledger call at a time --------------- *)
\* create_product reads and writes the ledger in five calls (createRandomId,
\* lines 581, 593, 599 and 621).  Each of MaxCalls invocations is taken through
\* them one call at a time, on a ledger that holds the index under the key
\* create_product reads ("v5cIDs") with the record of every identifier in it.
\* caller_affiliation (line 587) is chosen when the line is reached.
SeedIndexes == {<<>>, <<low>>}

CInit ==
    /\ \E ids \in SeedIndexes :
          /\ assets = [k \in Range(ids) |-> Marshal(NewProduct(k, "Toyota", "Derby"))]
          /\ holders = [k \in HolderKeys |->
                           IF k = "v5cIDs" THEN Holder(ids)
                           ELSE IF k = "pids" THEN Holder(<<>>) ELSE Absent]
    /\ ret = Idle
    /\ scrapDone = {}
    /\ calls = NoCalls

\* whether the ledger call the invocation is at fails
Fails(c) == {FALSE} \cup (IF c.failed < MaxFaults THEN {TRUE} ELSE {})

\* the invocation returns err
Return(c, err) == [c EXCEPT !.pc = "returned", !.err = err]

\* lines 553-579: the identifier is drawn, the affiliations are tested and
\* the product is built
CreateBegin(p) ==
    /\ calls[p].pc = "idle"
    /\ \E caller1 \in Principals, caller2_affiliation \in SecondAffiliations,
          product_destination \in Destinations :
       \E productId \in createRandomId(Ledger(assets, holders), {}) :
          LET c == [calls[p] EXCEPT !.caller1 = caller1, !.productId = productId,
                                    !.existed = productId \in DOMAIN assets]
          IN  calls' = [calls EXCEPT ![p] =
                  IF ~(AffiliationOf(caller1) = 2 /\ caller2_affiliation = 3)
                  THEN Return(c, OK)
                  ELSE IF product_destination = BadText THEN Return(c, E_JSON)
                  ELSE [c EXCEPT !.pc = "GetState_record"]]
    /\ UNCHANGED <<assets, holders, ret, scrapDone>>

\* lines 581-591: the record under the identifier is read (its error is
\* dropped) and caller_affiliation is tested
CreateCheck(p) ==
    /\ calls[p].pc = "GetState_record"
    /\ \E fails \in Fails(calls[p]), caller_affiliation \in Affiliations :
          LET c == [calls[p] EXCEPT !.failed = @ + (IF fails THEN 1 ELSE 0)]
              record == ~fails /\ c.productId \in DOMAIN assets
          IN  calls' = [calls EXCEPT ![p] =
                  IF record THEN Return(c, E_EXISTS)
                  ELSE IF caller_affiliation # GOVERNMENT
                       THEN Return(c, E_DENIED_UC)
                  ELSE [c EXCEPT !.pc = "save_changes"]]
    /\ UNCHANGED <<assets, holders, ret, scrapDone>>

\* lines 593-597: save_changes
CreateSave(p) ==
    /\ calls[p].pc = "save_changes"
    /\ \E fails \in Fails(calls[p]) :
          LET c == [calls[p] EXCEPT !.failed = @ + (IF fails THEN 1 ELSE 0)]
              \* "Derby": the one destination that passes line 577
              product == NewProduct(c.productId, c.caller1, "Derby")
              saved == save_changes(Ledger(assets, holders), product,
                                    IF fails THEN {"put_record"} ELSE {})
          IN  /\ assets' = saved.ledger.assets
              /\ calls' = [calls EXCEPT ![p] =
                     IF saved.err # OK THEN Return(c, E_SAVE)
                     ELSE [c EXCEPT !.pc = "GetState_v5cIDs",
                                    !.overwrote = c.productId \in DOMAIN assets]]
    /\ UNCHANGED <<holders, ret, scrapDone>>

\* lines 599-613: the index is read into v5cIDs
CreateRead(p) ==
    /\ calls[p].pc = "GetState_v5cIDs"
    /\ \E fails \in Fails(calls[p]) :
          LET c == [calls[p] EXCEPT !.failed = @ + (IF fails THEN 1 ELSE 0)]
              v5cIDs == holders["v5cIDs"]
          IN  calls' = [calls EXCEPT ![p] =
                  IF fails THEN Return(c, E_GET_IDS)
                  ELSE IF ~v5cIDs.present THEN Return(c, E_CORRUPT_IDS)
                  ELSE [c EXCEPT !.pc = "PutState_v5cIDs", !.ids = v5cIDs.ids]]
    /\ UNCHANGED <<assets, holders, ret, scrapDone>>

\* lines 615-627: the identifier is appended and the index is written back
CreatePut(p) ==
    /\ calls[p].pc = "PutState_v5cIDs"
    /\ \E fails \in Fails(calls[p]) :
          LET c == [calls[p] EXCEPT !.failed = @ + (IF fails THEN 1 ELSE 0)]
          IN  IF fails
              THEN /\ calls' = [calls EXCEPT ![p] = Return(c, E_PUT_IDS)]
                   /\ UNCHANGED holders
              ELSE /\ calls' = [calls EXCEPT ![p] = Return(c, OK)]
                   /\ holders' = [holders EXCEPT !["v5cIDs"] =
                                     Holder(Append(c.ids, c.productId))]
    /\ UNCHANGED <<assets, ret, scrapDone>>

CNext ==
    \E p \in Procs :
        \/ CreateBegin(p) \/ CreateCheck(p) \/ CreateSave(p)
        \/ CreateRead(p) \/ CreatePut(p)

CreateSpec == CInit /\ [][CNext]_vars

(* ------------------ createRandomId, one draw at a time ----------------- *)
\* The loop of createRandomId (lines 371-376) taken one draw at a time, on a
\* ledger that may hold the list getAllUsedProductIds reads (key "productId")
\* and the index create_product appends to (key "v5cIDs"), with the record
\* of every identifier in either.
SeedUsed == {<<>>, <<low>>, <<high - 1>>, <<low, high - 1>>}

AInit ==
    /\ \E used \in {Absent} \cup {Holder(ids) : ids \in SeedUsed},
          index \in SeedIndexes :
          /\ assets = [k \in Range(used.ids) \cup Range(index) |->
                          Marshal(NewProduct(k, "Toyota", "Derby"))]
          /\ holders = [k \in HolderKeys |->
                           IF k = "productId" THEN used
                           ELSE IF k = "v5cIDs" THEN Holder(index)
                           ELSE Holder(<<>>)]
    /\ ret = Idle
    /\ scrapDone = {}
    /\ calls = NoCalls

\* line 368: var randomId = 0
AllocStart(p) ==
    /\ calls[p].pc = "idle"
    /\ calls' = [calls EXCEPT ![p].pc = "createRandomId"]
    /\ UNCHANGED <<assets, holders, ret, scrapDone>>

\* lines 372-375: one turn of the loop, rand.Intn yielding randomId - low
AllocDraw(p, randomId) ==
    /\ calls[p].pc = "createRandomId"
    /\ calls' = [calls EXCEPT
                   ![p].productId = randomId,
                   ![p].pc = IF isRandomIdUnused(Ledger(assets, holders),
                                                 randomId, {})
                             THEN "drawn" ELSE "createRandomId"]
    /\ UNCHANGED <<assets, holders, ret, scrapDone>>

ANext ==
    \E p \in Procs :
        \/ AllocStart(p)
        \/ \E randomId \in Draws : AllocDraw(p, randomId)

AllocSpec == AInit /\ [][ANext]_vars

\* every call is started and every value of the range keeps being drawn
AllocLiveSpec ==
    /\ AllocSpec
    /\ \A p \in Procs :
          /\ WF_vars(AllocStart(p))
          /\ \A randomId \in Draws : WF_vars(AllocDraw(p, randomId))

(* --------------- a transfer, one ledger call at a time ----------------- *)
\* A transfer reads and writes the ledger in two calls: Invoke loads the asset
\* (line 459) and hands it by value to the handler, which tests its guard on
\* that value and calls save_changes.  Each of MaxCalls invocations of a
\* transfer out of CHECK_ACCREDITIVE is taken through the two calls, as the
\* dispatch of lines 482-505 would make them.
OwnerTransfers == {"buyer_to_buyer", "private_to_lease_company"}

TransferSeeds ==
    {seed \in SeedProducts :
        /\ seed.Status \in {STATE_ACCREDITIVE, STATE_CHECK_ACCREDITIVE}
        /\ seed.Make = "set" /\ seed.Name = "set" /\ seed.Reg = "set"
        /\ seed.Colour = "set" /\ seed.VIN = 1}

\* a transfer invocation that has not been made
NotTransferred == [pc |-> "idle", function |-> "", caller |-> "",
                   recipient |-> "", product |-> <<>>, err |-> OK]

TInit ==
    /\ \E seed \in TransferSeeds : assets = [k \in {SeedId} |-> Marshal(seed)]
    /\ holders = [k \in HolderKeys |-> IF k = "pids" THEN Holder(<<>>) ELSE Absent]
    /\ ret = Idle
    /\ scrapDone = {}
    /\ calls = [p \in Procs |-> NotTransferred]

\* lines 459-463: product, err := t.retrieve_product(stub, args[argPos])
TransferLoad(p) ==
    /\ calls[p].pc = "idle"
    /\ \E function \in OwnerTransfers, caller \in Principals,
          recipient \in Principals, faults \in FaultSets({"get_asset"}) :
          LET loaded == retrieve_product(Ledger(assets, holders), SeedId, faults)
              c == [calls[p] EXCEPT !.function = function, !.caller = caller,
                                    !.recipient = recipient]
          IN  calls' = [calls EXCEPT ![p] =
                  IF loaded.err # OK
                  THEN [c EXCEPT !.pc = "returned", !.err = E_RETRIEVE]
                  ELSE [c EXCEPT !.pc = "loaded", !.product = loaded.product]]
    /\ UNCHANGED <<assets, holders, ret, scrapDone>>

\* lines 486-489: the handler named is called on the asset Invoke loaded
TransferCall(p) ==
    /\ calls[p].pc = "loaded"
    /\ \E faults \in FaultSets({"put_record"}) :
          LET c == calls[p]
              out == IF c.function = "buyer_to_buyer"
                     THEN buyer_to_buyer(Ledger(assets, holders), c.product,
                              c.caller, AffiliationOf(c.caller), c.recipient,
                              AffiliationOf(c.recipient), faults)
                     ELSE private_to_lease_company(Ledger(assets, holders),
                              c.product, c.caller, AffiliationOf(c.caller),
                              c.recipient, AffiliationOf(c.recipient), faults)
          IN  /\ assets' = out.assets
              /\ holders' = out.holders
              /\ calls' = [calls EXCEPT ![p] =
                              [@ EXCEPT !.pc = "returned", !.err = out.err]]
    /\ UNCHANGED <<ret, scrapDone>>

TNext == \E p \in Procs : TransferLoad(p) \/ TransferCall(p)

TransferSpec == TInit /\ [][TNext]_vars

(* ------------------- Query on a ledger of many owners ------------------ *)
\* Query on a ledger whose index (under "v5cIDs", the key get_vehicles reads)
\* lists up to two identifiers, the record of each held by any principal or
\* missing.
QueryIndexes == {<<>>, <<low>>, <<low, high - 1>>, <<high - 1, low>>}

QInit ==
    /\ \E ids \in QueryIndexes :
       \E stored \in SUBSET Range(ids) :
       \E owner \in [stored -> Principals] :
          /\ assets = [k \in stored |->
                          Marshal([NewProduct(k, "Toyota", "Derby")
                                      EXCEPT !.Owner = owner[k]])]
          /\ holders = [k \in HolderKeys |->
                           IF k = "v5cIDs" THEN Holder(ids)
                           ELSE IF k = "pids" THEN Holder(<<>>) ELSE Absent]
    /\ ret = Idle
    /\ scrapDone = {}
    /\ calls = NoCalls

QNext == DoQuery \/ Respond

QuerySpec == QInit /\ [][QNext]_vars

(* --------------------- the HTTP field-read handlers -------------------- *)
\* read of owner/CRUD/read.js (lines 9-71) and of reg/CRUD/read.js (lines
\* 6-69): the handler posts the query get_vehicle_details and answers in the
\* callback of request, which is given (error, response, body).
Handlers == {"owner", "reg"}

\* the value JavaScript gives a variable or property that is not set
undefined == "undefined"

\* a body that is not set (typeof body is "undefined")
NoBody == [typeof |-> undefined]

\* obj.name in JavaScript
Property(obj, name) == IF name \in DOMAIN obj THEN obj[name] ELSE undefined

\* what request hands to the callback for the asset stored under v5cID: no
\* answer from the peer, status 200 with the result, status 200 with an error
\* body (a JSON-RPC error), and another status with either body
Outcomes(v5cID) ==
    {[error |-> TRUE, statusCode |-> 0, body |-> NoBody],
     [error |-> FALSE, statusCode |-> 200,
      body |-> [jsonrpc |-> "2.0", result |-> [message |-> assets[v5cID]]]],
     [error |-> FALSE, statusCode |-> 200,
      body |-> [jsonrpc |-> "2.0", error |-> [code |-> 0 - 32003]]],
     [error |-> FALSE, statusCode |-> 500,
      body |-> [jsonrpc |-> "2.0", error |-> [code |-> 0 - 32003]]],
     [error |-> FALSE, statusCode |-> 500, body |-> [Error |-> "no peer"]]}

\* a request that has not come in.  sent: what res.send has sent; thrown:
\* whether the callback ended in a TypeError
NoRequest == [pc |-> "idle", handler |-> "", v5cID |-> 0, error |-> FALSE,
              statusCode |-> 0, body |-> NoBody, sent |-> <<>>,
              thrown |-> FALSE]

WInit ==
    /\ \E seed \in TransferSeeds : assets = [k \in {SeedId} |-> Marshal(seed)]
    /\ holders = [k \in HolderKeys |-> IF k = "pids" THEN Holder(<<>>) ELSE Absent]
    /\ ret = Idle
    /\ scrapDone = {}
    /\ calls = [p \in Procs |-> NoRequest]

\* read up to the call of request: the query is posted
read(p) ==
    /\ calls[p].pc = "idle"
    /\ \E handler \in Handlers, v5cID \in DOMAIN assets :
          calls' = [calls EXCEPT ![p] = [@ EXCEPT !.pc = "request",
                                                  !.handler = handler,
                                                  !.v5cID = v5cID]]
    /\ UNCHANGED <<assets, holders, ret, scrapDone>>

\* the else branch of both callbacks: res.status(400); res.send(error)
SendError(c) ==
    [c EXCEPT !.sent = Append(@, [status |-> 400, error |-> TRUE,
                                  v5cID |-> c.v5cID])]

\* the then branch of both callbacks: res.send(result)
SendField(c, field) ==
    IF c.body = NoBody \/ "result" \notin DOMAIN c.body
    THEN [c EXCEPT !.thrown = TRUE]
    ELSE [c EXCEPT !.sent = Append(@,
              [status |-> 200,
               message |-> Property(c.body.result.message, field)])]

\* owner/CRUD/read.js lines 49-69
OwnerCallback(c) ==
    IF c.body = NoBody THEN [c EXCEPT !.thrown = TRUE]
    ELSE IF "error" \notin DOMAIN c.body /\ c.statusCode = 200
    THEN SendField(c, "owner")
    ELSE SendError(c)

\* reg/CRUD/read.js lines 45-68
RegCallback(c) ==
    IF ~c.error /\ c.statusCode = 200
    THEN SendField(c, "reg")
    ELSE SendError(c)

\* request calls the callback once, with one of the outcomes
callback(p) ==
    /\ calls[p].pc = "request"
    /\ \E o \in Outcomes(calls[p].v5cID) :
          LET c == [calls[p] EXCEPT !.pc = "done", !.error = o.error,
                                    !.statusCode = o.statusCode,
                                    !.body = o.body]
          IN  calls' = [calls EXCEPT ![p] =
                  IF c.handler = "owner" THEN OwnerCallback(c)
                  ELSE RegCallback(c)]
    /\ UNCHANGED <<assets, holders, ret, scrapDone>>

WNext == \E p \in Procs : read(p) \/ callback(p)

HttpSpec == WInit /\ [][WNext]_vars

(* ------------- the program on a ledger that holds the index ----------- *)
\* Invoke and Query as written, one call after the other, on the ledger
\* create_product expects: the index under "v5cIDs" with the record of every
\* identifier in it.  No create is made once the index holds MaxIndex
\* identifiers.
DoCreateOnIndex ==
    /\ Len(holders["v5cIDs"].ids) < MaxIndex
    /\ DoCreate

SNext == DoCreateOnIndex \/ DoInvoke \/ DoQuery \/ Respond

SeededSpec == CInit /\ [][SNext]_vars

(* ------------------------------ claims --------------------------------- *)
\* the functions of the Invoke surface that change an existing asset
MutatingFunctions == TransferFunctions \cup UpdateFunctions \cup {"scrap_vehicle"}

\* C1: no handler lowers the stored lifecycle state of an asset: after every
\* step each stored asset is still stored and its state is at least what it was.
C1_StateNeverDecreases ==
    [][\A id \in DOMAIN assets :
          id \in DOMAIN assets' /\ assets'[id].State >= assets[id].State]_vars

\* a transfer has raised the state of an asset to SHIPPING
C1_Witness ==
    /\ ret.op = "private_to_scrap_merchant" /\ ret.err = OK
    /\ assets[ret.id].State = STATE_SHIPPING

\* C2: a transfer, update or scrap that changes a stored asset was called on
\* that asset by the owner stored before the call.
C2_OnlyOwnerChanges ==
    [][\A id \in DOMAIN assets :
          (id \in DOMAIN assets' /\ assets'[id] # assets[id])
          => /\ ret'.op \in MutatingFunctions
             /\ ret'.id = id
             /\ ret'.caller = assets[id].Owner]_vars

\* the owner has handed an asset to another principal
C2_Witness ==
    /\ ret.op \in TransferFunctions /\ ret.err = OK
    /\ ret.arg # ret.caller
    /\ assets[ret.id].Owner = ret.arg

\* the call just made was a transfer, update or scrap of asset id, which
\* scrap_vehicle had succeeded on before
AfterScrap(id) ==
    /\ id \in scrapDone
    /\ ret'.op \in MutatingFunctions
    /\ ret'.id = id

IndexIds(h) == Range(h["pids"].ids) \cup Range(h["v5cIDs"].ids)

\* the call just made was an Invoke
Invoked == ret = Idle /\ ret'.op \in InvokeFunctions \cup {"no_such_function"}

\* the call just made was an Invoke that entered create_product
CreateRan ==
    /\ ret = Idle
    /\ ret'.op = "create_product"
    /\ ret'.err \notin {E_CALLER, E_PANIC}

C8_NonGovernmentCreateDenied ==
    [][(CreateRan /\ AffiliationOf(ret'.caller) # GOVERNMENT)
       => /\ ret'.err \in PermissionDenied
          /\ assets' = assets /\ holders' = holders]_vars

C10_GovernmentCreateStores ==
    [][(CreateRan /\ AffiliationOf(ret'.caller) = GOVERNMENT
            /\ ret'.id \notin DOMAIN assets)
       => /\ ret'.err \notin PermissionDenied \cup AlreadyExists
          /\ ret'.err = OK
             => /\ ret'.id \in DOMAIN assets'
                /\ assets'[ret'.id].State = STATE_SALESCONTRACT
                /\ assets'[ret'.id].Owner = ret'.caller
                /\ assets'[ret'.id].Scrapped = FALSE
                /\ holders'["v5cIDs"] =
                      Holder(Append(holders["v5cIDs"].ids, ret'.id))]_vars

(* ----------------------- claims on the handlers ------------------------ *)
\* the errors of a failed save_changes (PersistenceFailed)
SaveFailed == {E_SAVE, "SCRAP_VEHICLError saving changes"}

\* the call just made was handler op and its save_changes, if reached, worked
Called(op) == ret = Idle /\ ret'.op = op /\ ret'.err \notin SaveFailed

\* the stored asset the call was made on, before and after it
Before == assets[ret'.id]
After == assets'[ret'.id]

\* the call just made changed at most the fields named of its asset
OnlyChanged(fields) ==
    /\ DOMAIN assets' = DOMAIN assets
    /\ \A id \in DOMAIN assets : id # ret'.id => assets'[id] = assets[id]
    /\ \A f \in DOMAIN Before : f \notin fields => After[f] = Before[f]

\* the guard of a transfer out of lifecycle state from, made by the owner
TransferGuard(from, caller_affiliation, recipient_affiliation) ==
    /\ Before.State = from
    /\ Before.Owner = ret'.caller
    /\ AffiliationOf(ret'.caller) = caller_affiliation
    /\ AffiliationOf(ret'.arg) = recipient_affiliation
    /\ Before.Scrapped = FALSE

Populated(v) ==
    /\ UNDEFINED \notin {v.Make, v.Name, v.Reg, v.Colour}
    /\ v.VIN # 0

\* manufacturer_to_bank succeeds exactly when the fields are populated and
\* its guard holds, and then sets owner and state
BankSuccess ==
    /\ ret'.err = OK
       <=> /\ Populated(Before)
           /\ TransferGuard(STATE_ACCREDITIVE, MANUFACTURER, BUYER)
    /\ ret'.err = OK
       => /\ After.Owner = ret'.arg
          /\ After.State = STATE_CHECK_ACCREDITIVE
          /\ OnlyChanged({"Owner", "State"})

OwnerOnlyTransfer(op, caller_affiliation, recipient_affiliation) ==
    Called(op)
    => /\ ret'.err = OK
          <=> TransferGuard(STATE_CHECK_ACCREDITIVE, caller_affiliation,
                            recipient_affiliation)
       /\ ret'.err = OK
          => (After.Owner = ret'.arg /\ OnlyChanged({"Owner"}))
       /\ ret'.err # OK => assets' = assets

\* C13: buyer_to_buyer, private_to_lease_company and lease_company_to_private
\* succeed exactly in state CHECK_ACCREDITIVE with owner = caller, not
\* scrapped and affiliations BUYER/BUYER, BUYER/MANUFACTURER_BANK,
\* MANUFACTURER_BANK/BUYER; on success only the owner changes, to the recipient.
C13_OwnerOnlyTransfers ==
    [][/\ OwnerOnlyTransfer("buyer_to_buyer", BUYER, BUYER)
       /\ OwnerOnlyTransfer("private_to_lease_company", BUYER, MANUFACTURER_BANK)
       /\ OwnerOnlyTransfer("lease_company_to_private", MANUFACTURER_BANK, BUYER)
      ]_vars

\* a lease company has handed its asset back to a buyer, the state staying
\* CHECK_ACCREDITIVE
C13_Witness ==
    /\ ret.op = "lease_company_to_private" /\ ret.err = OK
    /\ AffiliationOf(ret.caller) = MANUFACTURER_BANK
    /\ assets[ret.id].Owner = ret.arg
    /\ AffiliationOf(ret.arg) = BUYER
    /\ assets[ret.id].State = STATE_CHECK_ACCREDITIVE

\* C14: private_to_scrap_merchant succeeds exactly when the state is
\* CHECK_ACCREDITIVE, the owner is the caller, the caller is BUYER, the
\* recipient is BUYER_BANK and the asset is not scrapped; then owner =
\* recipient and state = SHIPPING; no other operation moves an asset into
\* SHIPPING.
C14_ScrapMerchantOnlyShips ==
    [][/\ Called("private_to_scrap_merchant")
          => /\ ret'.err = OK
                <=> TransferGuard(STATE_CHECK_ACCREDITIVE, BUYER, BUYER_BANK)
             /\ ret'.err = OK
                => /\ After.Owner = ret'.arg
                   /\ After.State = STATE_SHIPPING
                   /\ OnlyChanged({"Owner", "State"})
             /\ ret'.err # OK => assets' = assets
       /\ \A id \in DOMAIN assets' :
             (assets'[id].State = STATE_SHIPPING
                 /\ (id \notin DOMAIN assets \/ assets[id].State # STATE_SHIPPING))
             => (ret'.op = "private_to_scrap_merchant" /\ ret'.id = id)]_vars

\* a buyer has handed its asset to a scrap merchant
C14_Witness ==
    /\ ret.op = "private_to_scrap_merchant" /\ ret.err = OK
    /\ AffiliationOf(ret.caller) = BUYER
    /\ AffiliationOf(ret.arg) = BUYER_BANK
    /\ assets[ret.id].Owner = ret.arg
    /\ assets[ret.id].State = STATE_SHIPPING

\* the guard the three manufacturer updates share
UpdateGuard ==
    /\ Before.Owner = ret'.caller
    /\ AffiliationOf(ret'.caller) = MANUFACTURER
    /\ Before.Scrapped = FALSE

\* an update that succeeds exactly under guard and then sets only field
UpdateOf(op, guard, field) ==
    Called(op)
    => /\ ret'.err = OK <=> guard
       /\ ret'.err = OK
          => (After[field] = ret'.arg /\ OnlyChanged({field}))
       /\ ret'.err # OK
          => (ret'.err \in PermissionDenied /\ assets' = assets)

\* C15: update_registration by a BUYER_BANK caller fails with
\* PermissionDenied, owner or not, and the asset is unchanged; for any other
\* affiliation it succeeds exactly when the owner is the caller and the asset
\* is not scrapped, and changes only the registration.
C15_UpdateRegistration ==
    [][/\ UpdateOf("update_registration",
                   /\ AffiliationOf(ret'.caller) # BUYER_BANK
                   /\ Before.Owner = ret'.caller
                   /\ Before.Scrapped = FALSE,
                   "Reg")
       /\ (ret = Idle /\ ret'.op = "update_registration"
              /\ AffiliationOf(ret'.caller) = BUYER_BANK)
          => (ret'.err \in PermissionDenied /\ assets' = assets)]_vars

\* scenario D: a BUYER_BANK owner of an asset that is not scrapped called
\* update_registration and was refused
C15_Witness ==
    /\ ret.op = "update_registration"
    /\ AffiliationOf(ret.caller) = BUYER_BANK
    /\ assets[ret.id].Owner = ret.caller
    /\ assets[ret.id].Scrapped = FALSE
    /\ ret.err \in PermissionDenied

\* C16: update_colour, update_make and update_model succeed exactly when the
\* owner is the caller, the caller is MANUFACTURER and the asset is not
\* scrapped, update_make and update_model only in state ACCREDITIVE,
\* update_colour in any state; on success only the named field changes.
C16_ManufacturerUpdates ==
    [][/\ UpdateOf("update_colour", UpdateGuard, "Colour")
       /\ UpdateOf("update_make",
                   UpdateGuard /\ Before.State = STATE_ACCREDITIVE, "Make")
       /\ UpdateOf("update_model",
                   UpdateGuard /\ Before.State = STATE_ACCREDITIVE, "Name")
      ]_vars

\* the manufacturer has recoloured an asset that is past ACCREDITIVE
C16_Witness ==
    /\ ret.op = "update_colour" /\ ret.err = OK
    /\ assets[ret.id].State > STATE_ACCREDITIVE
    /\ assets[ret.id].Colour = ret.arg
    /\ assets[ret.id].Owner = ret.caller

\* C17: scrap_vehicle fails with PermissionDenied whenever the state is not
\* SHIPPING; in state SHIPPING, called by the owner with affiliation
\* BUYER_BANK on an asset not yet scrapped, it succeeds and sets only
\* scrapped = true.
C17_Scrap ==
    [][/\ (ret = Idle /\ ret'.op = "scrap_vehicle"
              /\ Before.State # STATE_SHIPPING)
          => (ret'.err \in PermissionDenied /\ assets' = assets)
       /\ (Called("scrap_vehicle")
              /\ Before.State = STATE_SHIPPING
              /\ Before.Owner = ret'.caller
              /\ AffiliationOf(ret'.caller) = BUYER_BANK
              /\ Before.Scrapped = FALSE)
          => /\ ret'.err = OK
             /\ After.Scrapped = TRUE
             /\ OnlyChanged({"Scrapped"})]_vars

\* scenario F: the BUYER_BANK owner has scrapped its asset in state SHIPPING
C17_Witness ==
    /\ ret.op = "scrap_vehicle" /\ ret.err = OK
    /\ AffiliationOf(ret.caller) = BUYER_BANK
    /\ assets[ret.id].Owner = ret.caller
    /\ assets[ret.id].State = STATE_SHIPPING
    /\ assets[ret.id].Scrapped = TRUE

\* the errors Query returns before it reaches get_vehicle_details
QueryFailedEarly ==
    {"QUERY: Error retrieving caller details",
     "QUERY: Incorrect number of arguments passed", "QUERY: Error retrieving v5c"}

\* C18: get_vehicle_details returns the serialized asset exactly when the
\* caller is the asset's owner or has affiliation GOVERNMENT, in every
\* lifecycle state and scrapped or not; for every other caller it fails with
\* PermissionDenied; the ledger is unchanged in all cases.
C18_ReadDetails ==
    [][(ret = Idle /\ ret'.op = "get_vehicle_details")
       => /\ assets' = assets /\ holders' = holders
          /\ ret'.err \notin QueryFailedEarly
             => /\ ret'.err = OK
                   <=> \/ Before.Owner = ret'.caller
                       \/ AffiliationOf(ret'.caller) = GOVERNMENT
                /\ ret'.err = OK => ret'.out = <<Before>>
                /\ ret'.err # OK
                   => (ret'.err \in PermissionDenied /\ ret'.out = <<>>)]_vars

\* scenario E: the regulator has read a scrapped asset it does not own
C18_Witness ==
    /\ ret.op = "get_vehicle_details" /\ ret.err = OK
    /\ AffiliationOf(ret.caller) = GOVERNMENT
    /\ assets[ret.id].Owner # ret.caller
    /\ assets[ret.id].Scrapped = TRUE
    /\ ret.out = <<assets[ret.id]>>

(* ------------------------ claims on the routers ------------------------ *)
\* C19: an Invoke under one of the twelve operation names that names a
\* stored asset does not end in the unknown-operation error.
C19_InvokeRoutes ==
    [][(Invoked /\ ret'.op \in InvokeFunctions /\ ret'.id \in DOMAIN assets)
       => ret'.err \notin UnknownOperation]_vars

\* the caller of the call just made could not be resolved
CallerUnresolved ==
    ret'.err \in {E_CALLER, "QUERY: Error retrieving caller details"}

\* C20: an Invoke or Query under a name that is no defined operation fails
\* with UnknownOperation, whatever its arguments and the ledger, and writes
\* nothing.
C20_UnknownNameRejected ==
    [][(ret = Idle /\ ret'.op = "no_such_function" /\ ~CallerUnresolved)
       => /\ ret'.err \in UnknownOperation
          /\ assets' = assets /\ holders' = holders]_vars

\* the error of a call with the wrong number of arguments
InvalidArguments == {"QUERY: Incorrect number of arguments passed"}

\* the call just made had the wrong number of arguments: get_vehicles with
\* an argument, or another operation without the asset's identifier
WrongCount ==
    /\ ret = Idle
    /\ \/ ret'.op = "get_vehicles" /\ ret'.id # 0
       \/ /\ ret'.op \in (InvokeFunctions \ {"create_product"})
                             \cup {"get_vehicle_details"}
          /\ ret'.id = 0

\* C21: an Invoke or Query with the wrong number of arguments, made by a
\* caller that resolves, fails with InvalidArguments and leaves the ledger
\* as it was.
C21_WrongCountRejected ==
    [][(WrongCount /\ ~CallerUnresolved)
       => /\ ret'.err \in InvalidArguments
          /\ assets' = assets /\ holders' = holders]_vars

\* the errors of a caller or recipient that cannot be resolved
IdentityErrors ==
    {E_CALLER, "QUERY: Error retrieving caller details", E_ECERT, E_PANIC}

\* C22: an invocation by a caller whose affiliation field is no number fails
\* with an identity error and writes nothing.
C22_GarbledCallerRejected ==
    [][(ret = Idle /\ ret'.caller \in Garbled)
       => /\ ret'.err \in IdentityErrors
          /\ assets' = assets /\ holders' = holders]_vars

\* sequence s is the start of sequence t
IsPrefix(s, t) == Len(s) <= Len(t) /\ \A i \in DOMAIN s : s[i] = t[i]

\* C23: each call leaves every index record with its old value as a prefix;
\* the index changes only in a create that returns nil, which appends the
\* one identifier it drew.
C23_IndexOnlyAppended ==
    [][/\ \A k \in {"pids", "v5cIDs"} :
             /\ holders[k].present => holders'[k].present
             /\ IsPrefix(holders[k].ids, holders'[k].ids)
       /\ holders' # holders
          => /\ ret'.op = "create_product" /\ ret'.err = OK
             /\ holders' = [holders EXCEPT !["v5cIDs"] =
                               Holder(Append(holders["v5cIDs"].ids, ret'.id))]
      ]_vars

\* a create has returned nil on an index that already held an identifier,
\* and the index now ends in the identifier it drew
C23_Witness ==
    /\ ret.op = "create_product" /\ ret.err = OK
    /\ Len(holders["v5cIDs"].ids) >= 2
    /\ holders["v5cIDs"].ids[Len(holders["v5cIDs"].ids)] = ret.id
    /\ ret.id \in DOMAIN assets

\* C24: on the ledger Init leaves, before any asset is stored, get_vehicles
\* by a caller that resolves returns nil and the empty list unless the
\* ledger read itself fails.
C24_IndexReadableAfterInit ==
    [][(ret = Idle /\ ret'.op = "get_vehicles" /\ DOMAIN assets = {}
           /\ ~CallerUnresolved /\ ret'.err # E_GET_IDS)
       => (ret'.err = OK /\ ret'.out = <<>>)]_vars

\* the identifiers that have been given to an asset
Allocated == IndexIds(holders) \cup DOMAIN assets

Saved(v) ==
    {v} \cup {[v EXCEPT !.Owner = recipient] : recipient \in Principals}
        \cup {[v EXCEPT !.Status = s] : s \in STATE_SALESCONTRACT .. STATE_SCRAPPED}
        \cup {[v EXCEPT !.Scrapped = TRUE]}
        \cup {[v EXCEPT !.Reg = new_value] : new_value \in NewValues}
        \cup {[v EXCEPT !.Colour = new_value] : new_value \in NewValues}
        \cup {[v EXCEPT !.Make = new_value] : new_value \in NewValues}
        \cup {[v EXCEPT !.Name = new_value] : new_value \in NewValues}

C28_UpdatesEnableBank ==
    [][(/\ Called("manufacturer_to_bank")
        /\ TransferGuard(STATE_ACCREDITIVE, MANUFACTURER, BUYER)
        /\ UNDEFINED \notin {Before.Make, Before.Name, Before.Reg, Before.Colour})
       => ret'.err = OK]_vars

OwnerFits(v) ==
    /\ v.State = STATE_SALESCONTRACT
       => (v.Owner = v.Manufacturer /\ AffiliationOf(v.Owner) = GOVERNMENT)
    /\ v.State = STATE_ACCREDITIVE => AffiliationOf(v.Owner) = MANUFACTURER
    /\ v.State = STATE_CHECK_ACCREDITIVE
       => AffiliationOf(v.Owner) \in {BUYER, MANUFACTURER_BANK}
    /\ v.State = STATE_SHIPPING => AffiliationOf(v.Owner) = BUYER_BANK
    /\ v.Scrapped => v.State = STATE_SHIPPING

ReadFailed == {E_GET_IDS, "Failed to retrieve V5C"}

\* the listed records the caller may read, in the order of the index
Readable(caller) ==
    LET ids == SelectSeq(holders["v5cIDs"].ids,
                   LAMBDA id : \/ assets[id].Owner = caller
                               \/ AffiliationOf(caller) = GOVERNMENT)
    IN  [i \in 1 .. Len(ids) |-> assets[ids[i]]]

QueryOk(c) ==
    /\ ~c.error /\ c.statusCode = 200
    /\ c.body # NoBody /\ "error" \notin DOMAIN c.body

\* the field of the stored asset a handler is asked for
Requested(c) ==
    IF c.handler = "owner" THEN assets[c.v5cID].Owner ELSE assets[c.v5cID].Reg

\* C33: when the callback of a field-read handler has run, exactly one
\* response has been sent: the requested field as message when the query
\* returned status 200 without error, and otherwise status 400 with
\* error = true and the asset id.
C33_OneResponse ==
    \A p \in Procs :
        calls[p].pc = "done"
        => /\ Len(calls[p].sent) = 1
           /\ calls[p].sent[1] =
                 IF QueryOk(calls[p])
                 THEN [status |-> 200, message |-> Requested(calls[p])]
                 ELSE [status |-> 400, error |-> TRUE,
                       v5cID |-> calls[p].v5cID]

====
